---- MODULE Spec2Model ----
(***************************************************************************)
(* report-h2spec-regressions: a linear script that, for each suite of a    *)
(* comma-separated list, aggregates a JUnit report into Results, extracts  *)
(* the reference Results from the summary of a check run on `main`,        *)
(* compares the two failure counts and publishes the verdict lines.        *)
(*                                                                         *)
(* The repository holds three versions of the script; `variant` says which *)
(* one runs:                                                               *)
(*   "mjs"    src/index.mjs                                                *)
(*   "ts"     src/unnamed/part_000                                         *)
(*   "readme" the script in src/README.md (creates the check run first,    *)
(*            as in_progress, and updates it after the loop)               *)
(*                                                                         *)
(* Environment.  The inputs (token, suites) are fixed in Init.  What the   *)
(* script reads while it runs is drawn when it is read: the content of a   *)
(* report when the file is parsed, the groups of the report one by one as  *)
(* the loop of getCurrentResults visits them, and the check run of a given *)
(* name when getReferenceResults looks it up (`checks` remembers what each *)
(* name has been found to be, so that two lookups of one name agree).      *)
(* An uncaught exception ends the process with status 1.                   *)
(***************************************************************************)
EXTENDS Integers, Sequences, FiniteSets, TLC

VARIABLES
    variant,              \* which of the three scripts runs
    githubToken,          \* input "github-token" ("token" in the readme script)
    suitesInput,          \* input "suites": a string, as a sequence of characters
    pc,                   \* position of the script
    exitCode,             \* process exit status, -1 while the process runs
    checks,               \* check runs of `main`, by name, as far as looked up
    checkRun,             \* the "h2spec-regression" check run of this run
    suites,               \* suitesInput.split(",")
    idx,                  \* index of the suite the for-loop is at
    results,              \* accumulator of getCurrentResults (zero outside the call)
    todo,                 \* test groups of the open report not yet visited
    current,              \* Results of the report of the suite  (both local to the
    reference,            \* Results of the reference summary      loop body: zero outside)
    regressionsDetected,
    outputLines,
    comment               \* body of the comment left on the pull request

vars == <<variant, githubToken, suitesInput, pc, exitCode, checks, checkRun,
          suites, idx, results, todo, current, reference,
          regressionsDetected, outputLines, comment>>

-----------------------------------------------------------------------------
(* Bounds of the model *)

MaxInputLen == 3      \* characters of the suites input
MaxGroups == 2        \* test groups of one report

Variants == {"mjs", "ts", "readme"}
Chars == {"a", "b", ","}
CheckNames == {<<"a">>, <<"b">>}       \* names a check run of `main` may have

-----------------------------------------------------------------------------
(* JavaScript numbers: an integer or NaN *)

Num(n) == [nan |-> FALSE, v |-> n]
NaN == [nan |-> TRUE, v |-> 0]

Add(x, y) == IF x.nan \/ y.nan THEN NaN ELSE Num(x.v + y.v)
Sub(x, y) == IF x.nan \/ y.nan THEN NaN ELSE Num(x.v - y.v)
\* x > y, x < y, x == y: every comparison with NaN is false
Gt(x, y) == ~x.nan /\ ~y.nan /\ x.v > y.v
Lt(x, y) == ~x.nan /\ ~y.nan /\ x.v < y.v
Eq(x, y) == ~x.nan /\ ~y.nan /\ x.v = y.v

\* An attribute of a <testsuite> element as the XML parser hands it over:
\* absent (undefined), a text that does not start with a digit, or digits.
Absent == [kind |-> "absent", v |-> 0]
NonNumeric == [kind |-> "text", v |-> 0]
Digits(n) == [kind |-> "digits", v |-> n]

parseInt(raw) == IF raw.kind = "digits" THEN Num(raw.v) ELSE NaN

-----------------------------------------------------------------------------
(* Reports *)

Group(t, f, e, s) == [tests |-> t, failures |-> f, errors |-> e, skipped |-> s]

\* A passed test, a failure, an error, a skipped test, and one group with a
\* failure and an error among three tests
WellFormedGroups ==
    { Group(Digits(1), Digits(0), Digits(0), Digits(0)),
      Group(Digits(1), Digits(1), Digits(0), Digits(0)),
      Group(Digits(1), Digits(0), Digits(1), Digits(0)),
      Group(Digits(1), Digits(0), Digits(0), Digits(1)),
      Group(Digits(3), Digits(1), Digits(1), Digits(0)) }

\* A group without its failures attribute, and one whose tests attribute is no number
MalformedGroups ==
    { Group(Digits(1), Absent, Digits(0), Digits(0)),
      Group(NonNumeric, Digits(0), Digits(0), Digits(0)) }

TestGroups == WellFormedGroups \cup MalformedGroups

ZeroResults == [total |-> Num(0), passed |-> Num(0), failed |-> Num(0), skipped |-> Num(0)]

\* AddGroup with `passed += tests - (failures + skipped)`: the errors forgotten
AddGroup_ErrorsNotSubtracted(r, ts) ==
    LET tests == parseInt(ts.tests)
        failures == parseInt(ts.failures)
        errors == parseInt(ts.errors)
        skipped == parseInt(ts.skipped)
    IN  [total |-> Add(r.total, tests),
         failed |-> Add(r.failed, Add(failures, errors)),
         skipped |-> Add(r.skipped, skipped),
         passed |-> Add(r.passed, Sub(tests, Add(failures, skipped)))]

\* One pass of the body of `for (const ts of doc.testsuites.testsuite)`
AddGroup(r, ts) ==
    LET tests == parseInt(ts.tests)
        failures == parseInt(ts.failures)
        errors == parseInt(ts.errors)
        skipped == parseInt(ts.skipped)
    IN  [total |-> Add(r.total, tests),
         failed |-> Add(r.failed, Add(failures, errors)),
         skipped |-> Add(r.skipped, skipped),
         passed |-> Add(r.passed, Sub(tests, Add(Add(failures, errors), skipped)))]

-----------------------------------------------------------------------------
(* Reference summaries *)

\* A summary text is a sequence of pieces: a piece is either a sentence of the
\* form the regex matches, with the digits of its capture groups, or other text.
Junk == [kind |-> "junk", total |-> 0, passed |-> 0, failed |-> 0, skipped |-> 0]
Sentence(t, p, f, s) == [kind |-> "sentence", total |-> t, passed |-> p, failed |-> f, skipped |-> s]


\* output.summary of a check run: null, or a text (possibly the empty string)
NullSummary == [present |-> FALSE, text |-> <<>>]
Text(t) == [present |-> TRUE, text |-> t]

Summaries ==
    {NullSummary, Text(<<>>), Text(<<Junk>>)}
    \cup { Text(<<Sentence(2, 1, 1, 0)>>), Text(<<Junk, Sentence(1, 1, 0, 0)>>) }

\* The result of check_runs.find((c) => c.name == checkName)
NoCheck == [found |-> FALSE, summary |-> NullSummary]
CheckRuns == { [found |-> TRUE, summary |-> s] : s \in Summaries }

\* `!check.output.summary`: null, undefined and "" are falsy
Falsy(summary) == ~summary.present \/ summary.text = <<>>

\* regex.exec(summary): the first match in the text (the regex is not anchored),
\* or no match; a null summary is matched as the text "null".
RECURSIVE FirstSentence(_)
FirstSentence(text) ==
    IF text = <<>> THEN Junk
    ELSE IF Head(text).kind = "sentence" THEN Head(text)
    ELSE FirstSentence(Tail(text))

exec(summary) == IF summary.present THEN FirstSentence(summary.text) ELSE Junk

Matched(m) == m.kind = "sentence"

\* total: parseInt(m[1]), passed: parseInt(m[3]), failed: parseInt(m[4]), skipped: parseInt(m[5])
ExtractResults(m) ==
    [total |-> parseInt(Digits(m.total)), passed |-> parseInt(Digits(m.passed)),
     failed |-> parseInt(Digits(m.failed)), skipped |-> parseInt(Digits(m.skipped))]

-----------------------------------------------------------------------------
(* Strings *)

RECURSIVE Split(_)
\* str.split(","): the pieces between the commas; "" gives [""]
Split(str) ==
    IF \A i \in 1..Len(str) : str[i] # ","
    THEN <<str>>
    ELSE LET k == CHOOSE i \in 1..Len(str) : str[i] = "," /\ \A j \in 1..(i - 1) : str[j] # ","
         IN  <<SubSeq(str, 1, k - 1)>> \o Split(SubSeq(str, k + 1, Len(str)))

RECURSIVE Strings(_)
Strings(n) ==
    IF n = 0 THEN {<<>>}
    ELSE LET shorter == Strings(n - 1)
         IN  shorter \cup { Append(s, c) : s \in {t \in shorter : Len(t) = n - 1}, c \in Chars }

\* One line of the report, as the pieces the template string assembles
Newline == [kind |-> "newline"]

RECURSIVE join(_)
\* lines.join("\n")
join(lines) ==
    IF lines = <<>> THEN <<>>
    ELSE IF Len(lines) = 1 THEN <<lines[1]>>
    ELSE <<lines[1], Newline>> \o join(Tail(lines))

-----------------------------------------------------------------------------
(* The classifier *)

RegressionLine(suite, cur, ref) ==
    [kind |-> "Regression detected", suite |-> suite, current |-> cur.failed, reference |-> ref.failed]

\* diff is left undefined when none of the three comparisons holds
Diff(cur, ref) ==
    IF Eq(cur.failed, ref.failed) THEN [sign |-> "unchanged", n |-> Num(0)]
    ELSE IF Lt(cur.failed, ref.failed) THEN [sign |-> "-", n |-> Sub(ref.failed, cur.failed)]
    ELSE IF Gt(cur.failed, ref.failed) THEN [sign |-> "+", n |-> Sub(cur.failed, ref.failed)]
    ELSE [sign |-> "undefined", n |-> Num(0)]

NoRegressionLine(suite, cur, ref) ==
    [kind |-> "No regression", suite |-> suite, diff |-> Diff(cur, ref),
     passed |-> cur.passed, failed |-> cur.failed]

FailingLine == [kind |-> "Regressions detected, failing the build"]

IsRegression(cur, ref) == Gt(cur.failed, ref.failed)

-----------------------------------------------------------------------------
(* The script *)

NoCheckRun == [status |-> "none", conclusion |-> "none", summary |-> <<>>]

Init ==
    /\ variant \in Variants
    /\ githubToken \in {"", "token"}
    /\ suitesInput \in Strings(MaxInputLen)
    /\ pc = "start"
    /\ exitCode = -1
    /\ checks = <<>>
    /\ checkRun = NoCheckRun
    /\ suites = <<>>
    /\ idx = 0
    /\ results = ZeroResults
    /\ todo = 0
    /\ current = ZeroResults
    /\ reference = ZeroResults
    /\ regressionsDetected = FALSE
    /\ outputLines = <<>>
    /\ comment = <<>>

\* process.exit(code), or an uncaught exception (code 1)
Exit(code) ==
    /\ pc' = "exited"
    /\ exitCode' = code

\* The token check (in the readme script getInput with required: true, which
\* throws), getOctokit and checks.listForRef
GetToken ==
    /\ pc = "start"
    /\ IF githubToken = ""
       THEN Exit(1)
       ELSE /\ pc' = IF variant = "readme" THEN "context" ELSE "suites"
            /\ UNCHANGED exitCode
    /\ UNCHANGED <<variant, githubToken, suitesInput, checks, checkRun, suites, idx,
                   results, todo, current, reference, regressionsDetected,
                   outputLines, comment>>

\* getCheckRunContext (readme): throws on a workflow_run event without its field;
\* then checks.create with status in_progress
CreateCheck ==
    /\ pc = "context"
    /\ \E wellFormedEvent \in BOOLEAN :
          IF wellFormedEvent
          THEN /\ checkRun' = [status |-> "in_progress", conclusion |-> "none", summary |-> <<>>]
               /\ pc' = "suites"
               /\ UNCHANGED exitCode
          ELSE /\ Exit(1)
               /\ UNCHANGED checkRun
    /\ UNCHANGED <<variant, githubToken, suitesInput, checks, suites, idx,
                   results, todo, current, reference, regressionsDetected,
                   outputLines, comment>>

\* let suites = core.getInput("suites").split(",")
SplitSuites ==
    /\ pc = "suites"
    /\ suites' = Split(suitesInput)
    /\ idx' = 1
    /\ pc' = "loop"
    /\ UNCHANGED <<variant, githubToken, suitesInput, exitCode, checks, checkRun,
                   results, todo, current, reference, regressionsDetected,
                   outputLines, comment>>

\* getCurrentResults, up to its loop: the report is read and parsed (an
\* unreadable or misshapen report throws), the counters start at zero
ReadReport ==
    /\ pc = "loop"
    /\ idx <= Len(suites)
    /\ \E readable \in BOOLEAN :
          IF readable
          THEN /\ \E n \in 0..MaxGroups : todo' = n
               /\ results' = ZeroResults
               /\ pc' = "aggregate"
               /\ UNCHANGED exitCode
          ELSE /\ Exit(1)
               /\ UNCHANGED <<results, todo>>
    /\ UNCHANGED <<variant, githubToken, suitesInput, checks, checkRun, suites, idx,
                   current, reference, regressionsDetected, outputLines, comment>>

\* One pass of the loop of getCurrentResults
AggregateGroup ==
    /\ pc = "aggregate"
    /\ todo > 0
    /\ \E ts \in TestGroups : results' = AddGroup(results, ts)
    /\ todo' = todo - 1
    /\ UNCHANGED <<variant, githubToken, suitesInput, pc, exitCode, checks, checkRun,
                   suites, idx, current, reference, regressionsDetected,
                   outputLines, comment>>

\* ReferenceOutcome with process.exit(1) where no check run is found
ReferenceOutcome_HardStop(check) ==
    IF ~check.found
    THEN /\ Exit(1)
         /\ UNCHANGED reference
    ELSE IF variant # "mjs" /\ Falsy(check.summary)
    THEN /\ Exit(1)
         /\ UNCHANGED reference
    ELSE LET m == exec(check.summary)
         IN  IF ~Matched(m)
             THEN /\ Exit(1)
                  /\ UNCHANGED reference
             ELSE /\ reference' = ExtractResults(m)
                  /\ pc' = "classify"
                  /\ UNCHANGED exitCode

\* ReferenceOutcome without the tests of the summary and of the match: a summary
\* that does not match is read as zero counts
ReferenceOutcome_Unchecked(check) ==
    IF ~check.found
    THEN /\ Exit(0)
         /\ UNCHANGED reference
    ELSE LET m == exec(check.summary)
         IN  /\ reference' = ExtractResults(m)
             /\ pc' = "classify"
             /\ UNCHANGED exitCode

\* What getReferenceResults does with the check run it found
ReferenceOutcome(check) ==
    IF ~check.found
    THEN /\ Exit(0)
         /\ UNCHANGED reference
    ELSE IF variant # "mjs" /\ Falsy(check.summary)
    THEN /\ Exit(1)
         /\ UNCHANGED reference
    ELSE LET m == exec(check.summary)
         IN  IF ~Matched(m)
             THEN /\ Exit(1)      \* process.exit(1); in index.mjs m[1] throws
                  /\ UNCHANGED reference
             ELSE /\ reference' = ExtractResults(m)
                  /\ pc' = "classify"
                  /\ UNCHANGED exitCode

\* getCurrentResults returns; getReferenceResults(suite)
GetReferenceResults ==
    /\ pc = "aggregate"
    /\ todo = 0
    /\ current' = results
    /\ results' = ZeroResults
    /\ LET suite == suites[idx]
       IN  IF suite \in DOMAIN checks
           THEN /\ ReferenceOutcome(checks[suite])
                /\ UNCHANGED checks
           ELSE \E check \in (IF suite \in CheckNames THEN CheckRuns ELSE {}) \cup {NoCheck} :
                   /\ checks' = (suite :> check) @@ checks
                   /\ ReferenceOutcome(check)
    /\ UNCHANGED <<variant, githubToken, suitesInput, checkRun, suites, idx, todo,
                   regressionsDetected, outputLines, comment>>

\* The comparison of the loop body
Classify ==
    /\ pc = "classify"
    /\ LET suite == suites[idx]
       IN  IF variant = "mjs"
           THEN \* the template strings read spec.checkName, and `spec` is not defined
                /\ Exit(1)
                /\ UNCHANGED <<outputLines, regressionsDetected, idx, current, reference>>
           ELSE /\ IF IsRegression(current, reference)
                   THEN /\ outputLines' = Append(outputLines, RegressionLine(suite, current, reference))
                        /\ regressionsDetected' = TRUE
                   ELSE /\ outputLines' = Append(outputLines, NoRegressionLine(suite, current, reference))
                        /\ UNCHANGED regressionsDetected
                /\ current' = ZeroResults
                /\ reference' = ZeroResults
                /\ idx' = idx + 1
                /\ pc' = "loop"
                /\ UNCHANGED exitCode
    /\ UNCHANGED <<variant, githubToken, suitesInput, checks, checkRun, suites,
                   results, todo, comment>>

\* The loop is over.  index.mjs exits here when regressions were detected.
LoopDone ==
    /\ pc = "loop"
    /\ idx > Len(suites)
    /\ IF variant = "mjs" /\ regressionsDetected
       THEN /\ outputLines' = Append(outputLines, FailingLine)
            /\ Exit(1)
       ELSE /\ pc' = IF variant = "readme" THEN "check" ELSE "comment"
            /\ UNCHANGED <<outputLines, exitCode>>
    /\ UNCHANGED <<variant, githubToken, suitesInput, checks, checkRun, suites, idx,
                   results, todo, current, reference, regressionsDetected, comment>>

\* The comment on the pull request, when the run belongs to one.  In index.mjs
\* the test is `if (github.context.issue)`, an object, so it always comments and
\* the script ends there.
LeaveComment ==
    /\ pc = "comment"
    /\ \E isPullRequest \in BOOLEAN :
          IF isPullRequest \/ variant = "mjs"
          THEN comment' = join(outputLines)
          ELSE UNCHANGED comment
    /\ IF variant = "mjs"
       THEN Exit(0)
       ELSE /\ pc' = "check"
            /\ UNCHANGED exitCode
    /\ UNCHANGED <<variant, githubToken, suitesInput, checks, checkRun, suites, idx,
                   results, todo, current, reference, regressionsDetected, outputLines>>

\* Conclusion with the two branches swapped
Conclusion_Swapped(detected) == IF detected THEN "success" ELSE "failure"

Conclusion(detected) == IF detected THEN "failure" ELSE "success"

\* checks.create (part_000) or checks.update (readme) with status completed
CompleteCheck ==
    /\ pc = "check"
    /\ checkRun' = [status |-> "completed",
                    conclusion |-> Conclusion(regressionsDetected),
                    summary |-> join(outputLines)]
    /\ pc' = "end"
    /\ UNCHANGED <<variant, githubToken, suitesInput, exitCode, checks, suites, idx,
                   results, todo, current, reference, regressionsDetected,
                   outputLines, comment>>

\* The end of the script: part_000 exits with 1 when regressions were detected,
\* the readme script runs off its end.
Finish ==
    /\ pc = "end"
    /\ IF variant = "ts" /\ regressionsDetected
       THEN /\ outputLines' = Append(outputLines, FailingLine)
            /\ Exit(1)
       ELSE /\ Exit(0)
            /\ UNCHANGED outputLines
    /\ UNCHANGED <<variant, githubToken, suitesInput, checks, checkRun, suites, idx,
                   results, todo, current, reference, regressionsDetected, comment>>

Next ==
    \/ GetToken
    \/ CreateCheck
    \/ SplitSuites
    \/ ReadReport
    \/ AggregateGroup
    \/ GetReferenceResults
    \/ Classify
    \/ LoopDone
    \/ LeaveComment
    \/ CompleteCheck
    \/ Finish

Spec == Init /\ [][Next]_vars

-----------------------------------------------------------------------------
(* Properties *)

Exited == pc = "exited"

\* The verdict lines of the report: the lines the loop pushed
IsVerdictLine(line) == line.kind \in {"Regression detected", "No regression"}
VerdictLines == SelectSeq(outputLines, IsVerdictLine)
SomeRegressionLine == \E i \in 1..Len(outputLines) : outputLines[i].kind = "Regression detected"

\* The step of getReferenceResults for the suite the loop is at
LookupStep == pc = "aggregate" /\ todo = 0 /\ pc' # "aggregate"
\* The step of the comparison
ClassifyStep == pc = "classify" /\ pc' # "classify"

\* The summary holds a sentence of the form the regex matches
HasSentence(summary) ==
    summary.present /\ \E i \in 1..Len(summary.text) : summary.text[i].kind = "sentence"

AllNumeric(r) == ~r.total.nan /\ ~r.passed.nan /\ ~r.failed.nan /\ ~r.skipped.nan

\* C1: a run in which some suite was classified as a regression never ends
\* with exit code 0 (the exit code is 0 only if no suite had
\* current.failed > reference.failed), also when a later suite has no
\* reference check run.
C1_RegressionNeverExitsZero ==
    (Exited /\ SomeRegressionLine) => exitCode # 0

\* C2: the comparison flags a regression, sets regressionsDetected and pushes
\* the line "Regression detected in <suite>: <current.failed> > <reference.failed>"
\* exactly when current.failed > reference.failed; otherwise it pushes a
\* "No regression" line and leaves regressionsDetected as it was.
C2_ClassifierVerdict ==
    [][ClassifyStep =>
          /\ Len(outputLines') = Len(outputLines) + 1
          /\ LET line == outputLines'[Len(outputLines')]
             IN  IF ~current.failed.nan /\ ~reference.failed.nan
                    /\ current.failed.v > reference.failed.v
                 THEN /\ line.kind = "Regression detected"
                      /\ line.suite = suites[idx]
                      /\ line.current = current.failed
                      /\ line.reference = reference.failed
                      /\ regressionsDetected'
                 ELSE /\ line.kind = "No regression"
                      /\ line.suite = suites[idx]
                      /\ regressionsDetected' = regressionsDetected]_vars

\* C3: while getCurrentResults adds up the groups of a report whose attributes
\* are all numbers, every pass adds the tests of one group to total, its
\* failures + errors to failed and its skipped to skipped, and
\* total = passed + failed + skipped holds after every group and in the
\* Results it returns.
C3_AggregatorInvariant ==
    /\ []((pc = "aggregate" /\ AllNumeric(results)) =>
             results.total.v = results.passed.v + results.failed.v + results.skipped.v)
    /\ []((pc = "classify" /\ AllNumeric(current)) =>
             current.total.v = current.passed.v + current.failed.v + current.skipped.v)
    /\ [][(pc = "aggregate" /\ todo' = todo - 1 /\ AllNumeric(results')) =>
             \E ts \in WellFormedGroups :
                /\ results'.total.v = results.total.v + ts.tests.v
                /\ results'.failed.v = results.failed.v + ts.failures.v + ts.errors.v
                /\ results'.skipped.v = results.skipped.v + ts.skipped.v]_vars

\* C3 witness: two groups, one of them with an error, have been added
C3_Witness ==
    /\ pc = "aggregate" /\ todo = 0
    /\ AllNumeric(results)
    /\ results.total.v = 4 /\ results.failed.v = 3 /\ results.passed.v = 1

\* C4: when getReferenceResults finds no check run of the suite's name, the
\* process exits at once with code 0: no verdict line is pushed for the suite,
\* the loop does not advance, nothing is published, and nothing happens after
\* the exit.
C4_SoftStop ==
    [][/\ (LookupStep /\ ~checks'[suites[idx]].found) =>
             /\ pc' = "exited" /\ exitCode' = 0
             /\ outputLines' = outputLines /\ idx' = idx
             /\ comment' = comment /\ checkRun' = checkRun
       /\ (Exited /\ exitCode = 0) => UNCHANGED vars]_vars

\* C4 witness: the process has stopped with code 0 at a suite without a check
\* run, after a verdict line for an earlier suite
C4_Witness ==
    /\ Exited /\ exitCode = 0
    /\ idx = 2 /\ Len(suites) = 2 /\ Len(outputLines) = 1
    /\ suites[idx] \in DOMAIN checks /\ ~checks[suites[idx]].found

\* C5: when the check run of the suite's name has no summary, or a summary the
\* regex does not match, the process ends with a non-zero code and no verdict
\* line is pushed for that suite or any later one.
C5_MalformedSummaryFatal ==
    [][/\ (LookupStep /\ checks'[suites[idx]].found
                      /\ ~HasSentence(checks'[suites[idx]].summary)) =>
             /\ pc' = "exited" /\ exitCode' > 0
             /\ outputLines' = outputLines /\ idx' = idx
       /\ (Exited /\ exitCode > 0) => UNCHANGED vars]_vars

\* C5 witness: the process has ended with code 1 at the second suite, whose
\* check run has a summary without the sentence
C5_Witness ==
    /\ Exited /\ exitCode = 1
    /\ idx = 2 /\ Len(outputLines) = 1
    /\ suites[idx] \in DOMAIN checks /\ checks[suites[idx]].found
    /\ checks[suites[idx]].summary.present
    /\ checks[suites[idx]].summary.text # <<>>
    /\ ~HasSentence(checks[suites[idx]].summary)

\* C6: a group with an absent or non-numeric attribute makes the Aggregator
\* fail: no Results with a NaN counter reaches the comparison, and no verdict
\* line shows one.
C6_NoNaNReachesClassifier ==
    /\ pc = "classify" => AllNumeric(current)
    /\ \A i \in 1..Len(outputLines) :
          outputLines[i].kind = "No regression" => ~outputLines[i].failed.nan

\* C7: suites are processed in input order; each comparison appends the line of
\* the suite the loop is at and leaves the earlier lines alone, and when the
\* loop is over the report holds one verdict line per suite, the i-th for the
\* i-th suite.
C7_OneLinePerSuiteInOrder ==
    /\ [][ClassifyStep =>
             /\ Len(outputLines') = idx
             /\ outputLines'[idx].suite = suites[idx]
             /\ SubSeq(outputLines', 1, Len(outputLines)) = outputLines]_vars
    /\ [](pc \in {"comment", "check", "end"} =>
             /\ Len(outputLines) = Len(suites)
             /\ \A i \in 1..Len(suites) :
                   IsVerdictLine(outputLines[i]) /\ outputLines[i].suite = suites[i])

\* C8: when the "h2spec-regression" check run is completed, its conclusion is
\* "failure" if some suite was classified as a regression and "success"
\* otherwise, and its summary is the verdict lines of all suites, in input
\* order, joined by newlines.
C8_CompletedCheck ==
    checkRun.status = "completed" =>
        /\ checkRun.conclusion = (IF SomeRegressionLine THEN "failure" ELSE "success")
        /\ Len(VerdictLines) = Len(suites)
        /\ Len(checkRun.summary) = 2 * Len(suites) - 1
        /\ \A i \in 1..Len(suites) :
              /\ VerdictLines[i].suite = suites[i]
              /\ checkRun.summary[2 * i - 1] = VerdictLines[i]
              /\ i > 1 => checkRun.summary[2 * i - 2].kind = "newline"

\* C8 witness: a completed check run with conclusion failure over two suites
\* of different names
C8_Witness ==
    /\ checkRun.status = "completed" /\ checkRun.conclusion = "failure"
    /\ Len(suites) = 2 /\ suites[1] # suites[2]
    /\ VerdictLines[1].kind = "No regression"
    /\ VerdictLines[2].kind = "Regression detected"

\* C9: with the token input or the suites input empty, the process exits with
\* a failure status before any suite is processed: no report is read, no
\* reference is looked up, no verdict line is pushed.
C9_MissingInputFatal ==
    (githubToken = "" \/ suitesInput = <<>>) =>
        /\ pc \in {"start", "context", "suites", "loop", "exited"}
        /\ checks = <<>>
        /\ outputLines = <<>>
        /\ Exited => exitCode = 1

\* C10: in the script that creates the check run as in_progress before the
\* loop, a process that has created the check run does not end before it has
\* updated it to completed with a conclusion.
C10_CheckCompletedBeforeExit ==
    (variant = "readme" /\ Exited /\ checkRun.status # "none") =>
        (checkRun.status = "completed" /\ checkRun.conclusion # "none")

====
